---- MODULE Spec2Model ----
(***************************************************************************)
(* Model of repo-chat-mvp: the hybrid retrieval store (vector_store.py),   *)
(* the embedding helper (embedding.py) and the ingestion pipeline with its *)
(* rate-limited documentation generator (tmp_chat.py / chat.py).           *)
(*                                                                         *)
(* Six specifications share the variables:                                *)
(*   SpecStore   operations of HybridStore, called in any order            *)
(*   SpecIngest  ChatCore.ingest, run after run                            *)
(*   SpecGen     worker threads inside generate_doc, with a clock          *)
(*   SpecSize    build_index on a corpus around the flat/IVF limit         *)
(*   SpecLive    SpecGen and SpecIngest with their fairness conditions     *)
(*   SpecClone   requests to /api/clone and runs of clone_and_ingest       *)
(* Positions are 0-based as in the Python source; PyIndex and PySlice map  *)
(* them to TLA+ sequences.                                                 *)
(***************************************************************************)
EXTENDS Integers, Sequences, FiniteSets, TLC

VARIABLES
    \* ---- HybridStore (vector_store.py) ----
    vectors,      \* self._vectors
    metadata,     \* self.metadata
    bm25,         \* self.bm25: the tokenized corpus BM25Okapi was built from
    index,        \* self.index: the vectors held by the FAISS index
    index_file,   \* content of the file at index_path
    meta_file,    \* content of the file at meta_path
    lastQuery,    \* outcome of the most recent query call
    \* ---- generate_doc and its rate limiter (tmp_chat.py) ----
    now,          \* the clock, in seconds
    last_reset,   \* @limits: start of the current window
    num_calls,    \* @limits: admissions tried in the current window
    started,      \* the tasks were submitted to the pool
    thr,          \* per worker thread: its position inside generate_doc
    recent,       \* external calls started at each of the last PERIOD seconds
    \* ---- ChatCore.ingest (tmp_chat.py) ----
    ipc,          \* position of the thread that runs ingest
    ierr,         \* the exception ingest was left with
    run,          \* ingest calls started so far
    tasks,        \* the futures of the generate_doc tasks of this run
    collected,    \* tasks whose future.result() was consumed
    cache,        \* the dict returned by load_embed_cache
    cache_file,   \* content of the file EMBEDS_CACHE
    all_embeds,   \* local all_embeds
    new_items,    \* local new_items
    gen_calls,    \* generate_doc calls made during this run
    emb_calls,    \* embed_texts calls made during this run
    prev,         \* texts generated by the latest run that returned
    hist,         \* record of this run: the files and the store at its
                  \* start, the batch sent to the embedding service, the
                  \* calls made in order (observed, never read by ingest)
    \* ---- HybridStore.build_index on a large corpus ----
    n_vecs,       \* number of vectors buffered in self._vectors
    built,        \* the structure build_index made of them
    \* ---- /api/clone and clone_and_ingest (tmp_chat.py) ----
    jobs,         \* the URLs of the jobs waiting in the Celery queue
    response,     \* the latest answer of /api/clone
    task          \* the latest run of clone_and_ingest

storeVars == <<vectors, metadata, bm25, index, index_file, meta_file>>

genVars == <<now, last_reset, num_calls, started, thr, recent>>

ingVars == <<ipc, ierr, run, tasks, collected, cache, cache_file, all_embeds,
            new_items, gen_calls, emb_calls, prev, hist>>

vars == <<vectors, metadata, bm25, index, index_file, meta_file, lastQuery,
          now, last_reset, num_calls, started, thr, recent,
          ipc, ierr, run, tasks, collected, cache, cache_file, all_embeds,
          new_items, gen_calls, emb_calls, prev, hist, n_vecs, built,
          jobs, response, task>>

sizeVars == <<n_vecs, built>>

\* Python's None, and a value that is not None: an optional value is a
\* sequence of at most one element
None == <<>>

Some(x) == <<x>>

Val(o) == o[1]

Min(a, b) == IF a < b THEN a ELSE b

Max(a, b) == IF a > b THEN a ELSE b

(***************************************************************************)
(* Python list semantics                                                   *)
(***************************************************************************)
\* s[i] for a Python list s and an index i in -len(s) .. len(s)-1
PyIndex(s, i) == IF i < 0 THEN s[Len(s) + i + 1] ELSE s[i + 1]

\* s[:n] for a Python list or string s
PySlice(s, n) ==
    IF n >= 0 THEN SubSeq(s, 1, Min(n, Len(s)))
    ELSE SubSeq(s, 1, Max(0, Len(s) + n))

\* str.split(): the maximal runs of non-blank characters of a string
RECURSIVE SplitFrom(_, _, _)
SplitFrom(s, i, cur) ==
    IF i > Len(s) THEN (IF cur = "" THEN <<>> ELSE <<cur>>)
    ELSE IF SubSeq(s, i, i) = " "
         THEN (IF cur = "" THEN <<>> ELSE <<cur>>) \o SplitFrom(s, i + 1, "")
         ELSE SplitFrom(s, i + 1, cur \o SubSeq(s, i, i))

Split(s) == SplitFrom(s, 1, "")

(***************************************************************************)
(* Bounds of the model and the inputs the operations are called with       *)
(***************************************************************************)
MaxVectors == 2      \* most vectors buffered in one store object

MaxMeta == 2         \* most metadata records held by one store object

\* Two chunks longer than 30 characters that agree on their first 30.
LongChunk1 == "# Documentation for function foo bar"

LongChunk2 == "# Documentation for function fib qux"

\* The items add_embeddings is called with: distinct vectors, so that a
\* vector names the item it was added with.
Items ==
    { [path |-> "a", chunk |-> "foo bar",  vector |-> <<0, 0>>],
      [path |-> "d", chunk |-> LongChunk1, vector |-> <<0, 2>>],
      [path |-> "d", chunk |-> LongChunk2, vector |-> <<2, 2>>] }

\* add_embeddings is called with one item or with two
ItemBatches ==
    UNION { [1..n -> Items] : n \in { 1, 2 } }

\* the query vector is nearest to item "a" and as far from one "d" item as
\* from the other, so that the index may return those two in either order
QVectors == { <<1, 0>> }

QTokens == { <<"foo", "zzz">> }

TopKs == { 2, 10 }

\* alpha as a fraction <<numerator, denominator>>; the denominators are
\* powers of two, for which the float product top_k * alpha is exact
Alphas == { <<1, 4>>, <<1, 2>>, <<1, 1>> }

\* values BM25Okapi scores are drawn from; equal scores are ranked in any
\* order, so two values give every ranking of the documents
ScoreVals == { 0, 1 }

NoQuery == [status |-> "none"]

(***************************************************************************)
(* HybridStore                                                             *)
(***************************************************************************)
\* a variant of __init__ that leaves the BM25 model of the file aside
HybridStore_init_no_bm25 ==
    /\ vectors' = <<>>
    /\ bm25' = None
    /\ IF index_file # None /\ meta_file # None
       THEN /\ index' = index_file
            /\ metadata' = Val(meta_file).metadata
       ELSE /\ index' = None
            /\ metadata' = <<>>
    /\ UNCHANGED <<index_file, meta_file>>

\* __init__: an empty store; index, metadata and bm25 are loaded when both
\* files exist.  _vectors always starts empty.
HybridStore_init ==
    /\ vectors' = <<>>
    /\ IF index_file # None /\ meta_file # None
       THEN /\ index' = index_file
            /\ metadata' = Val(meta_file).metadata
            /\ bm25' = Val(meta_file).bm25
       ELSE /\ index' = None
            /\ metadata' = <<>>
            /\ bm25' = None
    /\ UNCHANGED <<index_file, meta_file>>

\* add_embeddings: one vector and one metadata record appended per item
add_embeddings(items) ==
    /\ vectors' = vectors \o [j \in 1..Len(items) |-> items[j].vector]
    /\ metadata' = metadata \o
           [j \in 1..Len(items) |-> [path |-> items[j].path, chunk |-> items[j].chunk]]
    /\ UNCHANGED <<bm25, index, index_file, meta_file>>

\* build_index: a new index over the buffered vectors (np.stack raises
\* ValueError on an empty buffer, and nothing changes)
build_index ==
    /\ vectors # <<>>
    /\ index' = Some(vectors)
    /\ UNCHANGED <<vectors, metadata, bm25, index_file, meta_file>>

\* build_bm25: BM25Okapi over the whitespace tokens of every metadata chunk
\* (BM25Okapi divides by the corpus size, so an empty corpus raises)
build_bm25 ==
    /\ metadata # <<>>
    /\ bm25' = Some([j \in 1..Len(metadata) |-> Split(metadata[j].chunk)])
    /\ UNCHANGED <<vectors, metadata, index, index_file, meta_file>>

\* persist, first statement: faiss.write_index(self.index, self.index_path)
persist_write_index ==
    /\ index # None
    /\ index_file' = index
    /\ UNCHANGED <<vectors, metadata, bm25, index, meta_file>>

\* persist, second statement: pickle.dump of metadata and bm25
persist_dump_meta ==
    /\ meta_file' = Some([metadata |-> metadata, bm25 |-> bm25])
    /\ UNCHANGED <<vectors, metadata, bm25, index, index_file>>

\* persist: the index file, then the metadata file (faiss.write_index
\* raises on a store whose index was never built)
persist ==
    /\ index # None
    /\ index_file' = index
    /\ meta_file' = Some([metadata |-> metadata, bm25 |-> bm25])
    /\ UNCHANGED <<vectors, metadata, bm25, index>>

(***************************************************************************)
(* HybridStore.build_index: the structure built for n buffered vectors     *)
(***************************************************************************)
SizeLo == 960        \* fewest buffered vectors build_index is called with

SizeHi == 1040       \* most buffered vectors build_index is called with

FlatLimit == 1000

NlistDivisor == 39

NprobeMax == 10

\* a variant of the size test that still builds the flat index at the limit
index_for_le(n) ==
    IF n <= FlatLimit
    THEN [kind |-> "IndexFlatL2", nlist |-> 0, nprobe |-> 0, calls |-> <<"add">>]
    ELSE LET nlist == Max(1, Min(n, n \div NlistDivisor))
         IN [kind |-> "IVF,Flat", nlist |-> nlist, nprobe |-> Min(NprobeMax, nlist),
             calls |-> <<"train", "add">>]

\* the index build_index makes of n > 0 vectors, and the calls made on it
index_for(n) ==
    IF n < FlatLimit
    THEN [kind |-> "IndexFlatL2", nlist |-> 0, nprobe |-> 0, calls |-> <<"add">>]
    ELSE LET nlist == Max(1, Min(n, n \div NlistDivisor))
         IN [kind |-> "IVF,Flat", nlist |-> nlist, nprobe |-> Min(NprobeMax, nlist),
             calls |-> <<"train", "add">>]

InitSizeVars ==
    /\ n_vecs = 0
    /\ built = None

(***************************************************************************)
(* Clone requests: is_allowed_repo, the route /api/clone and the Celery    *)
(* task clone_and_ingest (tmp_chat.py, chat.py).  A Python str is the      *)
(* sequence of its characters.                                             *)
(***************************************************************************)
MaxJobs == 2         \* most jobs waiting in the queue of the Celery broker

cloneVars == <<jobs, response, task>>

InitCloneVars ==
    /\ jobs = <<>>
    /\ response = None
    /\ task = None

\* ALLOWED_DOMAINS = ["github.com"]
ALLOWED_DOMAINS == << <<"g", "i", "t", "h", "u", "b", ".", "c", "o", "m">> >>

ascii_uppercase ==
    <<"A", "B", "C", "D", "E", "F", "G", "H", "I", "J", "K", "L", "M",
      "N", "O", "P", "Q", "R", "S", "T", "U", "V", "W", "X", "Y", "Z">>

ascii_lowercase ==
    <<"a", "b", "c", "d", "e", "f", "g", "h", "i", "j", "k", "l", "m",
      "n", "o", "p", "q", "r", "s", "t", "u", "v", "w", "x", "y", "z">>

digits == <<"0", "1", "2", "3", "4", "5", "6", "7", "8", "9">>

\* urllib.parse.scheme_chars
scheme_chars ==
    { ascii_lowercase[i] : i \in 1..26 } \cup { ascii_uppercase[i] : i \in 1..26 }
        \cup { digits[i] : i \in 1..10 } \cup { "+", "-", "." }

\* str.find for a set of characters: the 1-based position of the first of
\* them in s, 0 when s has none
find(s, cs) ==
    IF \E i \in 1..Len(s) : s[i] \in cs
    THEN CHOOSE i \in 1..Len(s) : s[i] \in cs /\ \A j \in 1..(i - 1) : s[j] \notin cs
    ELSE 0

\* str.rfind, likewise
rfind(s, cs) ==
    IF \E i \in 1..Len(s) : s[i] \in cs
    THEN CHOOSE i \in 1..Len(s) : s[i] \in cs /\ \A j \in (i + 1)..Len(s) : s[j] \notin cs
    ELSE 0

\* str.lower
lower(s) ==
    [i \in 1..Len(s) |->
        IF \E k \in 1..26 : ascii_uppercase[k] = s[i]
        THEN ascii_lowercase[CHOOSE k \in 1..26 : ascii_uppercase[k] = s[i]]
        ELSE s[i]]

\* str.endswith
endswith(s, d) ==
    Len(s) >= Len(d) /\ SubSeq(s, Len(s) - Len(d) + 1, Len(s)) = d

\* urlparse(url).netloc: a scheme is split off at the first colon when all
\* that precedes it are scheme characters and the first of them is a
\* letter; what follows a leading "//" up to the first of "/", "?", "#" is
\* the network location, and a URL without "//" has none
netloc(url) ==
    LET i == find(url, { ":" })
        has_scheme == /\ i > 1
                      /\ url[1] \notin { digits[k] : k \in 1..10 } \cup { "+", "-", "." }
                      /\ \A j \in 1..(i - 1) : url[j] \in scheme_chars
        rest == IF has_scheme THEN SubSeq(url, i + 1, Len(url)) ELSE url
    IN IF Len(rest) >= 2 /\ rest[1] = "/" /\ rest[2] = "/"
       THEN LET after == SubSeq(rest, 3, Len(rest))
                delim == find(after, { "/", "?", "#" })
            IN IF delim = 0 THEN after ELSE SubSeq(after, 1, delim - 1)
       ELSE <<>>

\* is_allowed_repo(repo_url)
is_allowed_repo(repo_url) ==
    LET host == lower(netloc(repo_url))
    IN \E k \in 1..Len(ALLOWED_DOMAINS) : endswith(host, ALLOWED_DOMAINS[k])

\* urlparse(url).hostname: the network location without the user
\* information that ends at its last "@" and without the port that starts
\* at the colon, in lower case
hostname(url) ==
    LET n == netloc(url)
        at == rfind(n, { "@" })
        hostinfo == SubSeq(n, at + 1, Len(n))
        colon == find(hostinfo, { ":" })
    IN lower(IF colon = 0 THEN hostinfo ELSE SubSeq(hostinfo, 1, colon - 1))

\* the URLs a client sends
Https == <<"h", "t", "t", "p", "s", ":", "/", "/">>

RepoPath == <<"/", "o", "/", "r">>

URLs ==
    { Https \o ALLOWED_DOMAINS[1] \o RepoPath,
      Https \o <<"a", "p", "i", ".">> \o ALLOWED_DOMAINS[1] \o RepoPath,
      Https \o <<"G", "i", "t", "H", "u", "b", ".", "c", "o", "m">> \o RepoPath,
      Https \o <<"u", "@">> \o ALLOWED_DOMAINS[1] \o RepoPath,
      Https \o ALLOWED_DOMAINS[1] \o <<":", "4", "4", "3">> \o RepoPath,
      Https \o <<"n", "o", "t">> \o ALLOWED_DOMAINS[1] \o RepoPath,
      Https \o ALLOWED_DOMAINS[1] \o <<".", "e", "x", ".", "o", "r", "g">> \o RepoPath,
      Https \o <<"e", "x", ".", "o", "r", "g", "?", ".">> \o ALLOWED_DOMAINS[1],
      Https \o <<"e", "x", ".", "o", "r", "g">> \o RepoPath,
      <<"g", "i", "t", "@">> \o ALLOWED_DOMAINS[1] \o <<":", "o", "/", "r">> }

\* the body of a request to /api/clone: a URL, or no repo_url
Bodies == URLs \cup { <<>> }

\* enqueue_clone(), the handler of POST /api/clone
enqueue_clone(url) ==
    /\ IF url = <<>>
       THEN /\ response' = Some([url |-> url, code |-> 400, error |-> "Missing repo_url"])
            /\ UNCHANGED jobs
       ELSE IF ~is_allowed_repo(url)
       THEN /\ response' = Some([url |-> url, code |-> 400, error |-> "Unsupported domain"])
            /\ UNCHANGED jobs
       ELSE /\ Len(jobs) < MaxJobs
            /\ jobs' = Append(jobs, url)
            /\ response' = Some([url |-> url, code |-> 202, error |-> ""])
    /\ UNCHANGED task

\* clone_and_ingest(repo_url), up to the call of Repo.clone_from
clone_and_ingest(repo_url) ==
    task' = IF ~is_allowed_repo(repo_url)
            THEN Some([url |-> repo_url, raised |-> "ValueError", clone_from |-> FALSE])
            ELSE Some([url |-> repo_url, raised |-> "", clone_from |-> TRUE])

(***************************************************************************)
(* HybridStore.query                                                       *)
(***************************************************************************)
\* squared L2 distance, the metric of IndexFlatL2
L2(u, v) ==
    LET RECURSIVE Sum(_)
        Sum(i) == IF i = 0 THEN 0 ELSE (u[i] - v[i]) * (u[i] - v[i]) + Sum(i - 1)
    IN Sum(Len(u))

\* the sequences of length k (k <= 3 is all the model needs to enumerate)
\* of distinct elements of S
RECURSIVE Arrangements(_, _)
Arrangements(S, k) ==
    IF k = 0 THEN { <<>> }
    ELSE UNION { { <<x>> \o r : r \in Arrangements(S \ {x}, k - 1) } : x \in S }

\* index.search(q, k): the labels of the k nearest vectors by ascending
\* distance, ties in any order, padded with -1 when the index holds fewer
\* than k vectors
Search(idx, q, k) ==
    LET n == Len(idx)
        m == Min(k, n)
        d(p) == L2(idx[p + 1], q)
        ok(I) == /\ \A j \in 1..(m - 1) : d(I[j]) <= d(I[j + 1])
                 /\ \A p \in 0..(n - 1) :
                        (\A j \in 1..m : I[j] # p) => \A j \in 1..m : d(I[j]) <= d(p)
    IN { I \o [j \in 1..(k - m) |-> -1] : I \in { J \in Arrangements(0..(n - 1), m) : ok(J) } }

\* bm25.get_scores(q_tokens): one score per document of the corpus; a
\* document holding none of the query tokens scores 0
GetScores(corpus, q_tokens) ==
    LET hit(doc) == \E a \in 1..Len(doc), b \in 1..Len(q_tokens) : doc[a] = q_tokens[b]
    IN { sc \in [1..Len(corpus) -> ScoreVals] :
            \A j \in 1..Len(corpus) : ~hit(corpus[j]) => sc[j] = 0 }

\* np.argsort(scores)[::-1][:top_k]: positions by descending score, ties in
\* any order
ArgsortDesc(scores, top_k) ==
    LET n == Len(scores)
    IN { PySlice(J, top_k) :
           J \in { I \in Arrangements(0..(n - 1), n) :
                     \A j \in 1..(n - 1) : scores[I[j] + 1] >= scores[I[j + 1] + 1] } }

\* a variant of n1 that rounds the product up
n1_roundup(top_k, alpha) == (top_k * alpha[1] + alpha[2] - 1) \div alpha[2]

\* n1 = int(top_k * alpha)
n1(top_k, alpha) == (top_k * alpha[1]) \div alpha[2]

\* merged = faiss_hits[:n1] + bm25_hits[: top_k - n1]
merged(faiss_hits, bm25_hits, top_k, alpha) ==
    PySlice(faiss_hits, n1(top_k, alpha)) \o PySlice(bm25_hits, top_k - n1(top_k, alpha))

\* a variant of key over the whole chunk
key_whole_chunk(doc) == <<doc.path, doc.chunk>>

\* key = (doc["path"], doc["chunk"][:30])
key(doc) == <<doc.path, PySlice(doc.chunk, 30)>>

\* a variant of the loop that keeps the last document of each key
RECURSIVE Dedup_keep_last(_, _)
Dedup_keep_last(docs, seen) ==
    IF docs = <<>> THEN <<>>
    ELSE IF \E j \in 2..Len(docs) : key(docs[j]) = key(Head(docs))
         THEN Dedup_keep_last(Tail(docs), seen)
         ELSE <<Head(docs)>> \o Dedup_keep_last(Tail(docs), seen)

\* a variant of the loop that keeps every document
Dedup_keep_all(docs, seen) == docs

\* the loop over merged: a document is kept when its key was not seen
RECURSIVE Dedup(_, _)
Dedup(docs, seen) ==
    IF docs = <<>> THEN <<>>
    ELSE IF key(Head(docs)) \in seen
         THEN Dedup(Tail(docs), seen)
         ELSE <<Head(docs)>> \o Dedup(Tail(docs), seen \cup { key(Head(docs)) })

\* a variant of query without its first statement: self.index.search on
\* None raises AttributeError
query_raises_unchecked ==
    IF index = None \/ bm25 = None THEN "AttributeError" ELSE "none"

\* the exception query is left with: RuntimeError by its first statement,
\* AttributeError by self.bm25.get_scores on a store without BM25
query_raises ==
    IF index = None
    THEN "RuntimeError"
    ELSE IF bm25 = None THEN "AttributeError" ELSE "none"

\* what one query call can end with: its exception, or its locals and the
\* list it returns, for every order the index and argsort may give to ties
QueryOutcomes(q_vector, q_tokens, top_k, alpha) ==
    IF query_raises # "none"
    THEN { [status |-> query_raises] }
    ELSE LET out(I, top_bm25_idx) ==
                LET faiss_hits == [j \in 1..Len(I) |-> PyIndex(metadata, I[j])]
                    bm25_hits == [j \in 1..Len(top_bm25_idx) |->
                                     PyIndex(metadata, top_bm25_idx[j])]
                    m == merged(faiss_hits, bm25_hits, top_k, alpha)
                IN [status |-> "ok", top_k |-> top_k, alpha |-> alpha,
                    I |-> I, faiss_hits |-> faiss_hits, bm25_hits |-> bm25_hits,
                    merged |-> m, results |-> PySlice(Dedup(m, {}), top_k)]
         IN { out(I, top_bm25_idx) :
                 I \in Search(Val(index), q_vector, top_k),
                 top_bm25_idx \in
                    UNION { ArgsortDesc(bm25_scores, top_k) :
                               bm25_scores \in GetScores(Val(bm25), q_tokens) } }

\* a variant of query that keeps the query vector in the buffer
query_buffering(q_vector, q_tokens, top_k, alpha) ==
    /\ vectors' = Append(vectors, q_vector)
    /\ UNCHANGED <<metadata, bm25, index, index_file, meta_file>>
    /\ lastQuery' \in QueryOutcomes(q_vector, q_tokens, top_k, alpha)

query(q_vector, q_tokens, top_k, alpha) ==
    /\ UNCHANGED storeVars
    /\ lastQuery' \in QueryOutcomes(q_vector, q_tokens, top_k, alpha)

(***************************************************************************)
(* ChatCore.ingest (tmp_chat.py): the repository it is run over, the       *)
(* texts the generation service may answer with, and the embedding service *)
(***************************************************************************)
MaxRuns == 2         \* ingest calls in one behaviour

\* flat_defs: the definitions parse_directory found, one in each of two
\* files
FlatDefs ==
    << [path |-> "m.py", name |-> "f"], [path |-> "n.py", name |-> "g"] >>

\* list(defs_by_file.keys())
ModulePaths == << "m.py", "n.py" >>

NumDefs == Len(FlatDefs)

NumTasks == NumDefs + Len(ModulePaths)

\* the texts chat.choices[0].message.content may hold
DocTexts == { "doc v1", "doc v2" }

\* the texts generated for the k-th document: those of m.py change from one
\* call to the next, those of n.py do not
TextsOf(k) == IF k \in { 1, 3 } THEN DocTexts ELSE { "doc v1" }

\* hashlib.sha256(text.encode("utf-8")).hexdigest() on the texts of DocTexts
Sha256(text) ==
    CASE text = "doc v1" ->
           "8869b49977d7e12d195f3b0b10ebd31debeea518f18630a8c298f60a4a318152"
      [] text = "doc v2" ->
           "f867fafbf6a9aaf2244cdfc71118635d5d939eb61bf0a623193be0d6b1f849d0"

\* data.embedding the embedding service answers with for one input text
Embedding(text) ==
    CASE text = "doc v1" -> <<1, 0>>
      [] text = "doc v2" -> <<0, 1>>

\* a future that was not submitted in this run
NoTask == [st |-> "none", text |-> ""]

\* the record of a process in which ingest was not called yet
NoHist ==
    [start |-> [index_file |-> None, meta_file |-> None, cache_file |-> None,
                vectors |-> <<>>, metadata |-> <<>>, docs |-> 0],
     batch |-> None,
     events |-> <<>>]

InitIngVars ==
    /\ ipc = "idle"
    /\ ierr = "none"
    /\ run = 0
    /\ tasks = [i \in 1..NumTasks |-> NoTask]
    /\ collected = {}
    /\ cache = {}
    /\ cache_file = None
    /\ all_embeds = <<>>
    /\ new_items = <<>>
    /\ gen_calls = 0
    /\ emb_calls = 0
    /\ prev = None
    /\ hist = NoHist

(***************************************************************************)
(* generate_doc (tmp_chat.py): @sleep_and_retry @limits(CALLS, PERIOD)     *)
(* around a loop of at most MAX_RETRIES calls of the chat completion       *)
(***************************************************************************)
CALLS == 1

PERIOD == 2

MAX_RETRIES == 5

NumThreads == 2      \* worker threads that each run one generate_doc task

RECURSIVE Pow2(_)
Pow2(n) == IF n <= 0 THEN 1 ELSE 2 * Pow2(n - 1)

\* the clock stops here: the tasks are submitted within the first window
\* of the limiter, which admits the last of the threads PERIOD *
\* (NumThreads - 1) seconds later at the latest, and an admitted call makes
\* its last attempt 1 + 2 + ... + 2^(MAX_RETRIES - 2) seconds after its
\* first
MaxTime == PERIOD * NumThreads + Pow2(MAX_RETRIES - 1) - 1

Threads == 1..NumThreads

\* a thread that has not entered generate_doc
IdleThread ==
    [pc |-> "idle", attempt |-> 0, backoff |-> 0, wake |-> 0, last |-> -1,
     sleeps |-> <<>>, resp |-> "none", err |-> "none"]

InitGenVars ==
    /\ now = 0
    /\ last_reset = 0
    /\ num_calls = 0
    /\ started = FALSE
    /\ thr = [t \in Threads |-> IdleThread]
    /\ recent = [j \in 1..PERIOD |-> 0]

\* the responses of client.chat.completions.create
Responses == { "ok", "RateLimitError", "APIError" }

\* a variant of the except clause that catches every exception
except_any(r) == r # "ok"

\* except RateLimitError
except_RateLimitError(r) == r = "RateLimitError"

\* a variant of the give-up test that never gives up
give_up_never(attempt) == FALSE

\* a variant of the give-up test that allows one more attempt
give_up_late(attempt) == attempt = MAX_RETRIES + 1

\* if attempt == MAX_RETRIES: raise
give_up(attempt) == attempt = MAX_RETRIES

\* backoff *= 2
next_backoff(backoff) == backoff * 2

\* pool.submit(generate_doc, prompt) for every task: the workers enter the
\* wrappers of generate_doc
GenSubmit ==
    /\ ~started
    /\ started' = TRUE
    /\ thr' = [t \in Threads |-> [thr[t] EXCEPT !.pc = "limits"]]
    /\ UNCHANGED <<now, last_reset, num_calls, recent>>

\* @limits under its lock, and @sleep_and_retry around it: the window is
\* reset when it has elapsed; the call is admitted when the window has room,
\* else the thread sleeps for the rest of the window and tries again
GenLimits(t) ==
    /\ \/ thr[t].pc = "limits"
       \/ thr[t].pc = "sleep_limit" /\ now >= thr[t].wake
    /\ LET period_remaining == PERIOD - (now - last_reset)
           reset == period_remaining <= 0
           n == (IF reset THEN 0 ELSE num_calls) + 1
       IN /\ last_reset' = IF reset THEN now ELSE last_reset
          /\ num_calls' = n
          /\ IF n > CALLS
             THEN thr' = [thr EXCEPT ![t].pc = "sleep_limit",
                                     ![t].wake = now + period_remaining]
             ELSE thr' = [thr EXCEPT ![t].pc = "call", ![t].attempt = 1,
                                     ![t].backoff = 1]
    /\ UNCHANGED <<now, started, recent>>

\* one pass of the loop body: the external call starts now and is answered;
\* RateLimitError before the last attempt sleeps backoff and doubles it
GenAttempt(t) ==
    /\ \/ thr[t].pc = "call"
       \/ thr[t].pc = "backoff" /\ now >= thr[t].wake
    /\ recent' = [recent EXCEPT ![PERIOD] = @ + 1]
    /\ \E r \in Responses :
          LET me == thr[t]
          IN thr' = [thr EXCEPT ![t] =
                IF r = "ok"
                THEN [me EXCEPT !.pc = "returned", !.last = now, !.resp = r]
                ELSE IF except_RateLimitError(r) /\ ~give_up(me.attempt)
                THEN [me EXCEPT !.pc = "backoff", !.last = now, !.resp = r,
                                !.wake = now + me.backoff,
                                !.sleeps = Append(me.sleeps, me.backoff),
                                !.backoff = next_backoff(me.backoff),
                                !.attempt = me.attempt + 1]
                ELSE [me EXCEPT !.pc = "raised", !.last = now, !.resp = r,
                                !.err = r]]
    /\ UNCHANGED <<now, last_reset, num_calls, started>>

\* a thread that can take a step now
Runnable(t) ==
    \/ thr[t].pc \in { "limits", "call" }
    \/ thr[t].pc \in { "sleep_limit", "backoff" } /\ now >= thr[t].wake

\* one second passes, once every thread that can run has run
Tick ==
    /\ now < MaxTime
    /\ started \/ now < PERIOD
    /\ \A t \in Threads : ~Runnable(t)
    /\ now' = now + 1
    /\ recent' = [j \in 1..PERIOD |-> IF j < PERIOD THEN recent[j + 1] ELSE 0]
    /\ UNCHANGED <<last_reset, num_calls, started, thr>>

InitGen ==
    /\ InitSizeVars
    /\ InitCloneVars
    /\ InitGenVars
    /\ InitIngVars
    /\ vectors = <<>>
    /\ metadata = <<>>
    /\ bm25 = None
    /\ index = None
    /\ index_file = None
    /\ meta_file = None
    /\ lastQuery = NoQuery

NextGen ==
    \/ GenSubmit /\ UNCHANGED <<storeVars, lastQuery, ingVars, sizeVars, cloneVars>>
    \/ \E t \in Threads : GenLimits(t) /\ UNCHANGED <<storeVars, lastQuery, ingVars, sizeVars, cloneVars>>
    \/ \E t \in Threads : GenAttempt(t) /\ UNCHANGED <<storeVars, lastQuery, ingVars, sizeVars, cloneVars>>
    \/ Tick /\ UNCHANGED <<storeVars, lastQuery, ingVars, sizeVars, cloneVars>>

SpecGen == InitGen /\ [][NextGen]_vars

\* the waits 1, 2, 4, ... of the first n failed attempts
DoublingWaits(n) == [j \in 1..n |-> Pow2(j - 1)]

RetryState ==
    \A t \in Threads :
       /\ thr[t].attempt <= MAX_RETRIES
       /\ Len(thr[t].sleeps) <= MAX_RETRIES - 1
       /\ thr[t].sleeps = DoublingWaits(Len(thr[t].sleeps))
       /\ thr[t].pc = "backoff" => thr[t].attempt = Len(thr[t].sleeps) + 1
       /\ thr[t].pc = "raised" /\ thr[t].err = "RateLimitError"
             => /\ thr[t].attempt = MAX_RETRIES
                /\ thr[t].sleeps = DoublingWaits(MAX_RETRIES - 1)

RetryStep ==
    \A t \in Threads :
       thr[t].last >= 0 /\ thr'[t].last # thr[t].last
          => /\ thr[t].pc = "backoff"
             /\ thr'[t].last >= thr[t].last + Pow2(thr[t].attempt - 2)

\* C8 (retry exhaustion): a generation call whose every attempt is answered
\* with a rate-limit error makes exactly MAX_RETRIES attempts, waits 1, 2, 4
\* and 8 seconds between consecutive attempts, then raises the rate-limit
\* error; no thread ever makes an attempt beyond the MAX_RETRIES-th.
RetryExhaustion == []RetryState /\ [][RetryStep]_vars

RetryExhaustionWitness ==
    \E t \in Threads :
       /\ thr[t].pc = "raised"
       /\ thr[t].err = "RateLimitError"
       /\ thr[t].attempt = 5
       /\ thr[t].sleeps = <<1, 2, 4, 8>>
       /\ thr[t].last >= 15

PermanentState ==
    \A t \in Threads :
       thr[t].resp = "APIError"
          => /\ thr[t].pc = "raised"
             /\ thr[t].err = "APIError"
             /\ Len(thr[t].sleeps) = thr[t].attempt - 1

PermanentStep ==
    \A t \in Threads :
       /\ thr'[t].resp = "APIError" /\ thr'[t] # thr[t]
             => /\ thr'[t].last = now
                /\ thr'[t].attempt = thr[t].attempt
                /\ thr'[t].sleeps = thr[t].sleeps
                /\ thr'[t].backoff = thr[t].backoff
                /\ thr'[t].wake = thr[t].wake
       /\ thr[t].pc = "raised" => thr'[t] = thr[t]

\* C12 (no retry of permanent errors): when the external call is answered
\* with an error other than the rate-limit error, generate_doc raises it at
\* once: the attempt counter, the waits made and the backoff stay as they
\* were at that call, and the thread makes no step afterwards.
NoRetryOfPermanentErrors == []PermanentState /\ [][PermanentStep]_vars

\* a permanent error at the second attempt, after one rate-limit retry
NoRetryOfPermanentErrorsWitness ==
    \E t \in Threads :
       /\ thr[t].pc = "raised"
       /\ thr[t].err = "APIError"
       /\ thr[t].attempt = 2
       /\ thr[t].sleeps = <<1>>
       /\ thr[t].last = thr[t].wake

RECURSIVE SumSeq(_)
SumSeq(q) == IF q = <<>> THEN 0 ELSE Head(q) + SumSeq(Tail(q))

\* C9 (global rate ceiling): in every window of PERIOD consecutive seconds
\* the worker threads together start at most CALLS external generation
\* calls.
RateCeiling == SumSeq(recent) <= CALLS

(***************************************************************************)
(* SpecStore: the operations of one HybridStore and of its successors      *)
(* constructed over the same files, called one after the other: a query    *)
(* has returned before the next operation starts                           *)
(***************************************************************************)
InitStore ==
    /\ InitSizeVars
    /\ InitCloneVars
    /\ InitGenVars
    /\ InitIngVars
    /\ vectors = <<>>
    /\ metadata = <<>>
    /\ bm25 = None
    /\ index = None
    /\ index_file = None
    /\ meta_file = None
    /\ lastQuery = NoQuery

StoreNew == HybridStore_init /\ lastQuery = NoQuery /\ UNCHANGED <<lastQuery, genVars, ingVars, sizeVars, cloneVars>>

StoreAdd ==
    \E items \in ItemBatches :
        /\ Len(vectors) + Len(items) <= MaxVectors
        /\ Len(metadata) + Len(items) <= MaxMeta
        /\ add_embeddings(items)
        /\ lastQuery = NoQuery
        /\ UNCHANGED <<lastQuery, genVars, ingVars, sizeVars, cloneVars>>

StoreBuildIndex == build_index /\ lastQuery = NoQuery /\ UNCHANGED <<lastQuery, genVars, ingVars, sizeVars, cloneVars>>

StoreBuildBm25 == build_bm25 /\ lastQuery = NoQuery /\ UNCHANGED <<lastQuery, genVars, ingVars, sizeVars, cloneVars>>

StorePersist == persist /\ lastQuery = NoQuery /\ UNCHANGED <<lastQuery, genVars, ingVars, sizeVars, cloneVars>>

\* a caller calls query and takes the result
StoreQuery ==
    /\ lastQuery = NoQuery
    /\ \E q_vector \in QVectors, q_tokens \in QTokens, top_k \in TopKs, alpha \in Alphas :
        query(q_vector, q_tokens, top_k, alpha) /\ UNCHANGED <<genVars, ingVars, sizeVars, cloneVars>>

StoreQueryDone ==
    /\ lastQuery # NoQuery
    /\ lastQuery' = NoQuery
    /\ UNCHANGED <<storeVars, genVars, ingVars, sizeVars, cloneVars>>

NextStore ==
    \/ StoreNew
    \/ StoreAdd
    \/ StoreBuildIndex
    \/ StoreBuildBm25
    \/ StorePersist
    \/ StoreQuery
    \/ StoreQueryDone

SpecStore == InitStore /\ [][NextStore]_vars

(***************************************************************************)
(* Properties of HybridStore, checked under SpecStore                      *)
(***************************************************************************)
\* the record an item of Items is added with
RecordOf(it) == [path |-> it.path, chunk |-> it.chunk]

\* C1: for every position held by the built index, the metadata record at
\* that position is the record that was added together with the vector the
\* index holds there.
IndexMetadataAligned ==
    index # None =>
        \A p \in 1..Len(Val(index)) :
            /\ p <= Len(metadata)
            /\ \E it \in Items : it.vector = Val(index)[p] /\ metadata[p] = RecordOf(it)

\* C2: the candidate list before deduplication is the first
\* floor(top_k * alpha) vector hits followed by the first top_k - n1 lexical
\* hits; with top_k = 10 and alpha = 1/4 at most 2 come from the vector
\* ranking and at most 8 from the lexical ranking.
FusionComposition ==
    lastQuery.status = "ok" =>
        LET k  == lastQuery.top_k
            fl == (k * lastQuery.alpha[1]) \div lastQuery.alpha[2]
            nv == Min(fl, Len(lastQuery.faiss_hits))
            nl == Min(k - fl, Len(lastQuery.bm25_hits))
            m  == lastQuery.merged
        IN /\ Len(m) = nv + nl
           /\ \A j \in 1..nv : m[j] = lastQuery.faiss_hits[j]
           /\ \A j \in 1..nl : m[nv + j] = lastQuery.bm25_hits[j]
           /\ (k = 10 /\ lastQuery.alpha = <<1, 4>>) => (nv <= 2 /\ nl <= 8)

\* a query with top_k = 10 and alpha = 1/4 that took two vector hits and
\* two lexical hits
FusionCompositionWitness ==
    /\ lastQuery.status = "ok"
    /\ lastQuery.top_k = 10
    /\ lastQuery.alpha = <<1, 4>>
    /\ Len(lastQuery.merged) = 4
    /\ lastQuery.merged[2] = lastQuery.faiss_hits[2]
    /\ lastQuery.merged[3] = lastQuery.bm25_hits[1]

\* the key of the claims: the path and the first 30 characters of the chunk
ClaimKey(doc) == <<doc.path, SubSeq(doc.chunk, 1, Min(30, Len(doc.chunk)))>>

\* C3: no two entries of the list query returns share the key
\* (path, first 30 characters of chunk).
DedupSafety ==
    lastQuery.status = "ok" =>
        \A i, j \in 1..Len(lastQuery.results) :
            i # j => ClaimKey(lastQuery.results[i]) # ClaimKey(lastQuery.results[j])

\* a query whose candidates held two different chunks with one key
DedupSafetyWitness ==
    /\ lastQuery.status = "ok"
    /\ \E i, j \in 1..Len(lastQuery.merged) :
          /\ lastQuery.merged[i] # lastQuery.merged[j]
          /\ ClaimKey(lastQuery.merged[i]) = ClaimKey(lastQuery.merged[j])

\* the entries of m whose key did not occur earlier in m, in the order of m
RECURSIVE FirstOccurrences(_, _)
FirstOccurrences(m, j) ==
    IF j > Len(m) THEN <<>>
    ELSE IF \E i \in 1..(j - 1) : ClaimKey(m[i]) = ClaimKey(m[j])
         THEN FirstOccurrences(m, j + 1)
         ELSE <<m[j]>> \o FirstOccurrences(m, j + 1)

QueryBeforeBuildState ==
    /\ lastQuery # NoQuery /\ index = None
          => lastQuery = [status |-> "RuntimeError"]
    /\ lastQuery.status = "RuntimeError" => index = None

QueryBeforeBuildStep ==
    lastQuery = NoQuery /\ lastQuery' # NoQuery /\ index = None
       => /\ lastQuery'.status = "RuntimeError"
          /\ UNCHANGED storeVars

\* C16 (query before build is an error): a query on a store whose index was
\* neither built nor loaded ends with RuntimeError, whatever its arguments,
\* yields no result list and leaves the store and its files as they were.
QueryBeforeBuild == []QueryBeforeBuildState /\ [][QueryBeforeBuildStep]_vars

\* items were added, BM25 was built, the index was not
QueryBeforeBuildWitness ==
    /\ lastQuery = [status |-> "RuntimeError"]
    /\ index = None
    /\ vectors # <<>>
    /\ bm25 # None

(***************************************************************************)
(* ChatCore.ingest (tmp_chat.py).  chat.py differs in the pool sizes, in   *)
(* collecting the definition futures with as_completed, in generating the  *)
(* module documents one after the other and in saving the cache also when  *)
(* nothing was embedded.                                                   *)
(***************************************************************************)
DefTasks == 1..NumDefs

ModTasks == (NumDefs + 1)..NumTasks

\* item["path"] of the document of task i
ItemPath(i) ==
    IF i \in DefTasks
    THEN FlatDefs[i].path \o "::" \o FlatDefs[i].name
    ELSE ModulePaths[i - NumDefs] \o "::file"

\* a variant of chunk_id that leaves the text out of the key
chunk_id_path_only(item) == item.path \o "::"

\* chunk_id(item)
chunk_id(item) == item.path \o "::" \o Sha256(item.chunk)

\* content of a cache file that pickle.load cannot read, such as the
\* truncated dump an interrupted save_embed_cache leaves behind
Corrupt == << {}, {} >>

\* load_embed_cache() raises: pickle.load is not guarded
load_embed_cache_raises == cache_file = Corrupt

\* a variant of load_embed_cache that never finds the file
load_embed_cache_empty == {}

\* load_embed_cache()
load_embed_cache == IF cache_file # None THEN Val(cache_file) ELSE {}

\* a variant of the cache test that never finds the key
InCache_never(c, cid) == FALSE

\* cid in cache
InCache(c, cid) == \E e \in c : e.cid = cid

\* cache[cid]
CacheGet(c, cid) == CHOOSE e \in c : e.cid = cid

\* a variant of the assignment that starts a new dict for the entry
CachePut_alone(c, cid, vector, chunk) ==
    { [cid |-> cid, vector |-> vector, chunk |-> chunk] }

\* cache[cid] = {"vector": ..., "chunk": ...}
CachePut(c, cid, vector, chunk) ==
    { e \in c : e.cid # cid } \cup { [cid |-> cid, vector |-> vector, chunk |-> chunk] }

\* a variant of embed_texts that pairs the texts with the reversed answer
embed_texts_reversed(texts) ==
    [j \in 1..Len(texts) |->
        [path |-> texts[j].path, chunk |-> texts[j].chunk,
         vector |-> Embedding(texts[Len(texts) + 1 - j].chunk)]]

\* a variant of embed_texts that gives every text the vector of the text
\* that came first in the batch
embed_texts_first(texts) ==
    [j \in 1..Len(texts) |->
        [path |-> texts[j].path, chunk |-> texts[j].chunk,
         vector |-> Embedding(texts[1].chunk)]]

\* a variant of embed_texts whose answer lacks the last vector, so that zip
\* drops the last text
embed_texts_short(texts) ==
    [j \in 1..(Len(texts) - 1) |->
        [path |-> texts[j].path, chunk |-> texts[j].chunk,
         vector |-> Embedding(texts[j].chunk)]]

\* embed_texts(texts): resp.data[j] is the embedding of chunks[j]
embed_texts(texts) ==
    LET chunks == [j \in 1..Len(texts) |-> texts[j].chunk]
        data == [j \in 1..Len(chunks) |-> Embedding(chunks[j])]
    IN [j \in 1..Min(Len(texts), Len(data)) |->
          [path |-> texts[j].path, chunk |-> texts[j].chunk, vector |-> data[j]]]

\* for it, e in zip(new_items, embeds): cache[it["cid"]] = {...}
RECURSIVE CacheFill(_, _, _, _)
CacheFill(c, items, embeds, j) ==
    IF j > Min(Len(items), Len(embeds))
    THEN c
    ELSE CacheFill(CachePut(c, items[j].cid, embeds[j].vector, embeds[j].chunk),
                   items, embeds, j + 1)

\* ingest up to the submission of the definition tasks; ChatCore is the
\* object of the previous run or one built by a new process
IngestStart ==
    /\ ipc \in { "idle", "returned", "raised" }
    /\ run < MaxRuns
    /\ run' = run + 1
    /\ prev' = IF ipc = "returned"
               THEN Some([i \in 1..NumTasks |-> tasks[i].text])
               ELSE prev
    /\ all_embeds' = <<>>
    /\ new_items' = <<>>
    /\ collected' = {}
    /\ hist' = [start |-> [index_file |-> index_file, meta_file |-> meta_file,
                          cache_file |-> cache_file, vectors |-> vectors,
                          metadata |-> metadata,
                          docs |-> NumTasks],
                batch |-> None,
                events |-> <<>>]
    /\ gen_calls' = 0
    /\ emb_calls' = 0
    /\ IF load_embed_cache_raises
       THEN /\ cache' = {}
            /\ tasks' = [i \in 1..NumTasks |-> NoTask]
            /\ ierr' = "cache_load"
            /\ ipc' = "raised"
       ELSE /\ cache' = load_embed_cache
            /\ tasks' = [i \in 1..NumTasks |->
                           IF i \in DefTasks
                           THEN [st |-> "pending", text |-> ""]
                           ELSE NoTask]
            /\ ierr' = "none"
            /\ ipc' = "defs"
    /\ UNCHANGED <<cache_file, storeVars>>

\* ingest over a directory in which parse_directory finds no definition:
\* flat_defs and module_paths are empty, both pools are left without a
\* task, new_items stays empty and ingest goes on to the store with an
\* empty all_embeds
IngestStartEmpty ==
    /\ ipc \in { "idle", "returned", "raised" }
    /\ run < MaxRuns
    /\ run' = run + 1
    /\ prev' = IF ipc = "returned"
               THEN Some([i \in 1..NumTasks |-> tasks[i].text])
               ELSE prev
    /\ all_embeds' = <<>>
    /\ new_items' = <<>>
    /\ collected' = {}
    /\ hist' = [start |-> [index_file |-> index_file, meta_file |-> meta_file,
                          cache_file |-> cache_file, vectors |-> vectors,
                          metadata |-> metadata, docs |-> 0],
                batch |-> None,
                events |-> <<>>]
    /\ gen_calls' = 0
    /\ emb_calls' = 0
    /\ tasks' = [i \in 1..NumTasks |-> NoTask]
    /\ IF load_embed_cache_raises
       THEN /\ cache' = {}
            /\ ierr' = "cache_load"
            /\ ipc' = "raised"
       ELSE /\ cache' = load_embed_cache
            /\ ierr' = "none"
            /\ ipc' = "add"
    /\ UNCHANGED <<cache_file, storeVars>>

\* the cache file is damaged between two runs
CorruptCacheFile ==
    /\ ipc \in { "idle", "returned", "raised" }
    /\ cache_file # None
    /\ cache_file # Corrupt
    /\ cache_file' = Corrupt
    /\ UNCHANGED <<ipc, ierr, run, tasks, collected, cache, all_embeds,
                   new_items, gen_calls, emb_calls, prev, hist, storeVars>>

\* ChatCore(): a new process builds its store from the files
IngestNewCore ==
    /\ ipc \in { "idle", "returned", "raised" }
    /\ HybridStore_init
    /\ UNCHANGED ingVars

\* a pool worker runs generate_doc for task i to its end
TaskRun(i) ==
    /\ tasks[i].st = "pending"
    /\ gen_calls' = gen_calls + 1
    /\ \/ \E text \in TextsOf(i) : tasks' = [tasks EXCEPT ![i] = [st |-> "ok", text |-> text]]
       \/ tasks' = [tasks EXCEPT ![i] = [st |-> "err", text |-> ""]]
    /\ UNCHANGED <<ipc, ierr, run, collected, cache, cache_file, all_embeds,
                   new_items, emb_calls, prev, hist, storeVars>>

\* the body of both collecting loops for the finished task i
Collect(i, exit_pc) ==
    /\ tasks[i].st \in { "ok", "err" }
    /\ collected' = collected \cup { i }
    /\ IF tasks[i].st = "err"
       THEN /\ ipc' = exit_pc
            /\ ierr' = "generation"
            /\ UNCHANGED <<all_embeds, new_items>>
       ELSE LET item == [path |-> ItemPath(i), chunk |-> tasks[i].text]
                cid == chunk_id(item)
            IN /\ UNCHANGED <<ipc, ierr>>
               /\ IF InCache(cache, cid)
                  THEN /\ all_embeds' = Append(all_embeds,
                              [path |-> item.path,
                               chunk |-> CacheGet(cache, cid).chunk,
                               vector |-> CacheGet(cache, cid).vector])
                       /\ UNCHANGED new_items
                  ELSE /\ new_items' = Append(new_items,
                              [path |-> item.path, chunk |-> item.chunk, cid |-> cid])
                       /\ UNCHANGED all_embeds
    /\ UNCHANGED <<run, tasks, cache, cache_file, gen_calls, emb_calls, prev, hist,
                   storeVars>>

\* doc_text = future.result() for the next definition in submission order
CollectDef ==
    /\ ipc = "defs"
    /\ \E i \in DefTasks :
          /\ i \notin collected
          /\ \A j \in DefTasks : j < i => j \in collected
          /\ Collect(i, "defs_exit")

\* a variant of the pool exit that cancels the futures still pending
PoolExit_cancel ==
    /\ ipc \in { "defs_exit", "mods_exit" }
    /\ tasks' = [i \in 1..NumTasks |->
                   IF tasks[i].st = "pending"
                   THEN [st |-> "cancelled", text |-> ""]
                   ELSE tasks[i]]
    /\ ipc' = "raised"
    /\ UNCHANGED <<ierr, run, collected, cache, cache_file, all_embeds,
                   new_items, gen_calls, emb_calls, prev, hist, storeVars>>

\* the exception leaves the with block: the pool waits for its workers
PoolExit ==
    /\ ipc \in { "defs_exit", "mods_exit" }
    /\ \A i \in 1..NumTasks : tasks[i].st # "pending"
    /\ ipc' = "raised"
    /\ UNCHANGED <<ierr, run, tasks, collected, cache, cache_file, all_embeds,
                   new_items, gen_calls, emb_calls, prev, hist, storeVars>>

\* the module tasks are submitted to the second pool
SubmitMods ==
    /\ ipc = "defs"
    /\ DefTasks \subseteq collected
    /\ tasks' = [i \in 1..NumTasks |->
                   IF i \in ModTasks THEN [st |-> "pending", text |-> ""] ELSE tasks[i]]
    /\ ipc' = "mods"
    /\ UNCHANGED <<ierr, run, collected, cache, cache_file, all_embeds,
                   new_items, gen_calls, emb_calls, prev, hist, storeVars>>

\* file_doc = future.result() for a module future of as_completed
CollectMod ==
    /\ ipc = "mods"
    /\ \E i \in ModTasks : i \notin collected /\ Collect(i, "mods_exit")

\* the call named e is added to the record of the run
Event(e) == hist' = [hist EXCEPT !.events = Append(@, e)]

\* to_embed
ToEmbed ==
    [j \in 1..Len(new_items) |->
        [path |-> new_items[j].path, chunk |-> new_items[j].chunk]]

\* a variant of step 3 that saves the cache before it calls embed_texts
EmbedNew_save_first ==
    /\ ipc = "mods"
    /\ ModTasks \subseteq collected
    /\ new_items # <<>>
    /\ emb_calls' = emb_calls + 1
    /\ cache_file' = Some(cache)
    /\ hist' = [hist EXCEPT !.batch = Some(ToEmbed),
                            !.events = Append(@, "save_embed_cache")]
    /\ ipc' = "raised"
    /\ ierr' = "embedding"
    /\ UNCHANGED <<cache, all_embeds>>
    /\ UNCHANGED <<run, tasks, collected, new_items, gen_calls, prev, storeVars>>

\* step 3: the new items are embedded in one batch, cached, and the cache
\* is saved; nothing of it happens without new items
EmbedNew ==
    /\ ipc = "mods"
    /\ ModTasks \subseteq collected
    /\ IF new_items # <<>>
       THEN /\ emb_calls' = emb_calls + 1
            /\ \/ LET embeds == embed_texts(ToEmbed)
                  IN /\ cache' = CacheFill(cache, new_items, embeds, 1)
                     /\ all_embeds' = all_embeds \o embeds
                     /\ cache_file' = Some(cache')
                     /\ hist' = [hist EXCEPT !.batch = Some(ToEmbed),
                                             !.events = Append(@, "save_embed_cache")]
                     /\ ipc' = "add"
                     /\ UNCHANGED ierr
               \/ /\ ipc' = "raised"
                  /\ ierr' = "embedding"
                  /\ hist' = [hist EXCEPT !.batch = Some(ToEmbed)]
                  /\ UNCHANGED <<cache, cache_file, all_embeds>>
       ELSE /\ ipc' = "add"
            /\ UNCHANGED <<ierr, cache, cache_file, all_embeds, emb_calls, hist>>
    /\ UNCHANGED <<run, tasks, collected, new_items, gen_calls, prev, storeVars>>

ingLocals == <<ierr, run, tasks, collected, cache, cache_file, all_embeds,
               new_items, gen_calls, emb_calls, prev>>

\* self.store.add_embeddings(all_embeds)
IngestAdd ==
    /\ ipc = "add"
    /\ add_embeddings(all_embeds)
    /\ ipc' = "build_index"
    /\ Event("add_embeddings")
    /\ UNCHANGED ingLocals

\* a variant of the build_index step that goes on to persist at once
IngestBuildIndex_then_persist ==
    /\ ipc = "build_index"
    /\ vectors # <<>>
    /\ build_index
    /\ ipc' = "persist"
    /\ Event("build_index")
    /\ UNCHANGED ingLocals

\* a variant of the build_index step in which an empty buffer makes an
\* empty index
IngestBuildIndex_empty_index ==
    /\ ipc = "build_index"
    /\ index' = Some(vectors)
    /\ UNCHANGED <<vectors, metadata, bm25, index_file, meta_file>>
    /\ ipc' = "build_bm25"
    /\ Event("build_index")
    /\ UNCHANGED ingLocals

\* self.store.build_index(): np.stack raises on an empty list
IngestBuildIndex ==
    /\ ipc = "build_index"
    /\ IF vectors = <<>>
       THEN ipc' = "raised" /\ ierr' = "build_index" /\ UNCHANGED <<storeVars, hist>>
       ELSE build_index /\ ipc' = "build_bm25" /\ Event("build_index") /\ UNCHANGED ierr
    /\ UNCHANGED <<run, tasks, collected, cache, cache_file, all_embeds,
                   new_items, gen_calls, emb_calls, prev>>

\* self.store.build_bm25()
IngestBuildBm25 ==
    /\ ipc = "build_bm25"
    /\ build_bm25
    /\ ipc' = "persist"
    /\ Event("build_bm25")
    /\ UNCHANGED ingLocals

\* self.store.persist(), first statement
IngestPersist ==
    /\ ipc = "persist"
    /\ persist_write_index
    /\ ipc' = "persist_meta"
    /\ Event("write_index")
    /\ UNCHANGED ingLocals

\* self.store.persist(), second statement; return len(all_defs)
IngestPersistMeta ==
    /\ ipc = "persist_meta"
    /\ persist_dump_meta
    /\ ipc' = "returned"
    /\ Event("write_meta")
    /\ UNCHANGED ingLocals

\* self.store.persist() raises IOError at its first or second statement
IngestPersistFail ==
    /\ ipc \in { "persist", "persist_meta" }
    /\ ipc' = "raised"
    /\ ierr' = "persist"
    /\ UNCHANGED <<run, tasks, collected, cache, cache_file, all_embeds,
                   new_items, gen_calls, emb_calls, prev, hist, storeVars>>

InitIngest ==
    /\ InitSizeVars
    /\ InitCloneVars
    /\ InitIngVars
    /\ InitGenVars
    /\ vectors = <<>>
    /\ metadata = <<>>
    /\ bm25 = None
    /\ index = None
    /\ index_file = None
    /\ meta_file = None
    /\ lastQuery = NoQuery

NextIngest ==
    \/ IngestStart /\ UNCHANGED <<lastQuery, genVars, sizeVars, cloneVars>>
    \/ IngestStartEmpty /\ UNCHANGED <<lastQuery, genVars, sizeVars, cloneVars>>
    \/ IngestNewCore /\ UNCHANGED <<lastQuery, genVars, sizeVars, cloneVars>>
    \/ CorruptCacheFile /\ UNCHANGED <<lastQuery, genVars, sizeVars, cloneVars>>
    \/ \E i \in 1..NumTasks : TaskRun(i) /\ UNCHANGED <<lastQuery, genVars, sizeVars, cloneVars>>
    \/ CollectDef /\ UNCHANGED <<lastQuery, genVars, sizeVars, cloneVars>>
    \/ PoolExit /\ UNCHANGED <<lastQuery, genVars, sizeVars, cloneVars>>
    \/ SubmitMods /\ UNCHANGED <<lastQuery, genVars, sizeVars, cloneVars>>
    \/ CollectMod /\ UNCHANGED <<lastQuery, genVars, sizeVars, cloneVars>>
    \/ EmbedNew /\ UNCHANGED <<lastQuery, genVars, sizeVars, cloneVars>>
    \/ IngestAdd /\ UNCHANGED <<lastQuery, genVars, sizeVars, cloneVars>>
    \/ IngestBuildIndex /\ UNCHANGED <<lastQuery, genVars, sizeVars, cloneVars>>
    \/ IngestBuildBm25 /\ UNCHANGED <<lastQuery, genVars, sizeVars, cloneVars>>
    \/ IngestPersist /\ UNCHANGED <<lastQuery, genVars, sizeVars, cloneVars>>
    \/ IngestPersistMeta /\ UNCHANGED <<lastQuery, genVars, sizeVars, cloneVars>>
    \/ IngestPersistFail /\ UNCHANGED <<lastQuery, genVars, sizeVars, cloneVars>>

SpecIngest == InitIngest /\ [][NextIngest]_vars

(***************************************************************************)
(* Properties of ChatCore.ingest, checked under SpecIngest                 *)
(***************************************************************************)
\* the texts generated by the tasks of this run
Texts == [i \in 1..NumTasks |-> tasks[i].text]

\* this run is past its embedding step and generated what the latest
\* returned run had generated
RepeatedRun ==
    /\ ipc \in { "add", "build_index", "build_bm25", "persist", "persist_meta",
                 "returned" }
    /\ prev # None
    /\ Texts = Val(prev)

ContentAddressing ==
    /\ \A i \in 1..NumTasks : \A t1, t2 \in DocTexts :
          LET k1 == chunk_id([path |-> ItemPath(i), chunk |-> t1])
              k2 == chunk_id([path |-> ItemPath(i), chunk |-> t2])
          IN /\ k1 = ItemPath(i) \o "::" \o Sha256(t1)
             /\ t1 # t2 => k1 # k2
    /\ \A j \in 1..Len(all_embeds) :
          \E i \in collected :
             /\ all_embeds[j].path = ItemPath(i)
             /\ all_embeds[j].chunk = tasks[i].text

\* the text of a path changed since the run that cached it: the lookup
\* missed although the cache holds an entry of that path
ContentAddressingWitness ==
    /\ prev # None
    /\ \E i \in collected, j \in 1..Len(new_items) :
          /\ tasks[i].st = "ok"
          /\ tasks[i].text # Val(prev)[i]
          /\ new_items[j].path = ItemPath(i)
          /\ new_items[j].chunk = tasks[i].text
          /\ \E e \in cache :
                e.cid = ItemPath(i) \o "::" \o Sha256(Val(prev)[i])

\* the entries of a cache meet the key and vector conditions
ConsistentEntries(c) ==
    /\ \A e \in c :
          /\ \E i \in 1..NumTasks : e.cid = ItemPath(i) \o "::" \o Sha256(e.chunk)
          /\ e.vector = Embedding(e.chunk)
    /\ \A e1, e2 \in c : e1.cid = e2.cid => e1 = e2

\* C7 (cache entry consistency): every entry of the embed cache, in memory
\* and in its file, is stored under path + "::" + sha256 of its own text and
\* holds the vector the embedding service answered for that text.
CacheEntryConsistency ==
    /\ ConsistentEntries(cache)
    /\ cache_file # None /\ cache_file # Corrupt
          => ConsistentEntries(Val(cache_file))

\* one batch of two different texts was embedded and cached
CacheEntryConsistencyWitness ==
    /\ ipc = "add"
    /\ emb_calls = 1
    /\ Len(new_items) >= 2
    /\ \E j, k \in 1..Len(new_items) : new_items[j].chunk # new_items[k].chunk
    /\ \A j \in 1..Len(new_items) : InCache(Val(cache_file), new_items[j].cid)

\* C10 (per-definition failure isolation): when the generation call of one
\* definition fails, the run is not aborted: ingest returns normally and
\* every definition whose generation succeeded is among the records added to
\* the store and persisted, the failed one is not.
FailureIsolation ==
    (ipc \in { "returned", "raised" } /\ \E i \in DefTasks : tasks[i].st = "err")
       => /\ ipc = "returned"
          /\ meta_file # None
          /\ \A i \in DefTasks :
                tasks[i].st = "ok"
                   <=> \E j \in 1..Len(Val(meta_file).metadata) :
                          Val(meta_file).metadata[j].path = ItemPath(i)

\* the tasks submitted so far in this run
Submitted == { i \in 1..NumTasks : tasks[i].st # "none" }

SiblingState ==
    /\ \A i \in 1..NumTasks : tasks[i].st \in { "none", "pending", "ok", "err" }
    /\ ipc = "raised" /\ ierr = "generation"
          => /\ \A i \in Submitted :
                   \/ tasks[i].st = "ok" /\ tasks[i].text \in DocTexts
                   \/ tasks[i].st = "err"
             /\ gen_calls = Cardinality(Submitted)

SiblingStep ==
    \A i \in 1..NumTasks :
       tasks[i].st = "pending" /\ tasks'[i].st = "err"
          => \A j \in 1..NumTasks : j # i => tasks'[j] = tasks[j]

\* C11 (sibling independence): the failure of one generation task changes no
\* other task of the pool, no task is ever cancelled, and when ingest is
\* left with the failure every task submitted to the pool has made its own
\* call and holds its own result.
SiblingIndependence == []SiblingState /\ [][SiblingStep]_vars

\* the first definition failed, the second was generated all the same
SiblingIndependenceWitness ==
    /\ ipc = "raised"
    /\ ierr = "generation"
    /\ tasks[1].st = "err"
    /\ tasks[2].st = "ok"
    /\ gen_calls = NumDefs

\* the three files and the store are as they were when the run started
AsAtStart ==
    /\ index_file = hist.start.index_file
    /\ meta_file = hist.start.meta_file
    /\ cache_file = hist.start.cache_file
    /\ vectors = hist.start.vectors
    /\ metadata = hist.start.metadata

EmbeddingFailureStep ==
    ipc' = "raised" /\ ierr' = "embedding" /\ ipc # "raised"
       => /\ index_file' = hist.start.index_file
          /\ meta_file' = hist.start.meta_file
          /\ cache_file' = hist.start.cache_file
          /\ vectors' = hist.start.vectors
          /\ metadata' = hist.start.metadata

\* C13 (embedding failure atomicity): when the embedding batch call fails,
\* ingest is left with that error and, at that moment, the index file, the
\* metadata file, the embed cache file and the items of the in-memory store
\* are what they were when the run started; up to the embedding step no run
\* writes any of them.
EmbeddingFailureAtomicity ==
    /\ [](ipc \in { "defs", "defs_exit", "mods", "mods_exit" } => AsAtStart)
    /\ [][EmbeddingFailureStep]_vars

\* the batch of a second run failed; the files of the first run are in place
EmbeddingFailureAtomicityWitness ==
    /\ ipc = "raised"
    /\ ierr = "embedding"
    /\ run = 2
    /\ hist.batch # None
    /\ hist.start.cache_file # None
    /\ hist.start.index_file # None
    /\ AsAtStart

\* an index file and a metadata file describe the same chunks, position by
\* position (the vector of a chunk is the embedding of its text)
PairMatches(ifile, mfile) ==
    IF ifile = None \/ mfile = None
    THEN ifile = None /\ mfile = None
    ELSE /\ Len(Val(ifile)) = Len(Val(mfile).metadata)
         /\ \A p \in 1..Len(Val(ifile)) :
               Val(ifile)[p] = Embedding(Val(mfile).metadata[p].chunk)

\* C14 (persist failure leaves the old state valid): when a run that
\* started over a matching pair of index file and metadata file fails
\* during persist, the two files on disk still are a matching pair.
PersistFailureKeepsPair ==
    ( /\ ipc = "raised"
      /\ ierr = "persist"
      /\ hist.start.meta_file # None
      /\ PairMatches(hist.start.index_file, hist.start.meta_file) )
       => PairMatches(index_file, meta_file)

\* the place of the call named e among the calls of this run, 0 if it was
\* not made
Pos(e) ==
    IF \E j \in 1..Len(hist.events) : hist.events[j] = e
    THEN CHOOSE j \in 1..Len(hist.events) :
            /\ hist.events[j] = e
            /\ \A k \in 1..(j - 1) : hist.events[k] # e
    ELSE 0

\* both rebuilds were made, and before the two store files were written
RebuildsBeforeStoreFiles ==
    /\ Pos("build_index") > 0
    /\ Pos("build_bm25") > 0
    /\ Pos("write_index") > Pos("build_index")
    /\ Pos("write_index") > Pos("build_bm25")
    /\ Pos("write_meta") > Pos("write_index")

InitSize ==
    /\ n_vecs \in SizeLo..SizeHi
    /\ built = None
    /\ InitCloneVars
    /\ InitGenVars
    /\ InitIngVars
    /\ vectors = <<>>
    /\ metadata = <<>>
    /\ bm25 = None
    /\ index = None
    /\ index_file = None
    /\ meta_file = None
    /\ lastQuery = NoQuery

\* build_index()
SizeBuildIndex ==
    /\ built = None
    /\ built' = Some(index_for(n_vecs))
    /\ UNCHANGED <<n_vecs, storeVars, lastQuery, genVars, ingVars, cloneVars>>

NextSize == SizeBuildIndex

SpecSize == InitSize /\ [][NextSize]_vars

\* C17 (threshold behaviour of build_index): fewer than 1000 buffered vectors
\* give the flat L2 index, filled by add alone; 1000 or more give the IVF
\* index with nlist = max(1, min(n, n div 39)) and nprobe = min(10, nlist),
\* trained before the vectors are added; 999 vectors give the flat index,
\* 1000 vectors the IVF index with nlist 25 and nprobe 10.
BuildIndexThreshold ==
    built # None =>
       LET b == Val(built)
       IN /\ n_vecs < 1000
                => b.kind = "IndexFlatL2" /\ b.calls = <<"add">>
          /\ n_vecs >= 1000
                => /\ b.kind = "IVF,Flat"
                   /\ b.calls = <<"train", "add">>
                   /\ b.nlist * 39 <= n_vecs
                   /\ n_vecs < (b.nlist + 1) * 39
                   /\ b.nprobe = 10
          /\ n_vecs = 999 => b.kind = "IndexFlatL2"
          /\ n_vecs = 1000 => b.kind = "IVF,Flat" /\ b.nlist = 25 /\ b.nprobe = 10

BuildIndexThresholdWitness ==
    /\ n_vecs = 1000
    /\ built # None
    /\ Val(built).kind = "IVF,Flat"
    /\ Val(built).nlist = 25

\* C18 (first-run tolerant cache load): a run that finds the cache file
\* absent or unreadable is not left with an error of load_embed_cache and
\* works on an empty cache.
CacheLoadTolerant ==
    run > 0 /\ (hist.start.cache_file = None \/ hist.start.cache_file = Corrupt)
       => /\ ierr # "cache_load"
          /\ ipc \in { "defs", "defs_exit", "mods", "mods_exit" } => cache = {}

\* the cache this run loaded when it started
LoadedCache ==
    IF hist.start.cache_file = None \/ hist.start.cache_file = Corrupt
    THEN {}
    ELSE Val(hist.start.cache_file)

\* the tasks whose generated text is not in the loaded cache under the key
\* of their item
Misses ==
    { i \in 1..NumTasks :
         /\ tasks[i].st = "ok"
         /\ ~ \E e \in LoadedCache :
                 e.cid = ItemPath(i) \o "::" \o Sha256(tasks[i].text) }

PastEmbedding ==
    ipc \in { "add", "build_index", "build_bm25", "persist", "persist_meta",
              "returned" }

\* C19 (single embedding batch): a run calls the embedding service at most
\* once; the batch it sends holds exactly the items, of definitions and of
\* modules, whose key was not in the cache, each once; a run without such
\* items makes no call; no item found in the cache is sent.
SingleEmbeddingBatch ==
    /\ emb_calls <= 1
    /\ emb_calls = 1 <=> hist.batch # None
    /\ hist.batch # None
          => LET batch == Val(hist.batch)
             IN /\ batch # <<>>
                /\ Len(batch) = Cardinality(Misses)
                /\ { batch[j] : j \in 1..Len(batch) }
                      = { [path |-> ItemPath(i), chunk |-> tasks[i].text] : i \in Misses }
    /\ PastEmbedding /\ Misses = {} => emb_calls = 0

\* a run that found one text in the cache and sent the two others
SingleEmbeddingBatchWitness ==
    /\ ipc = "add"
    /\ emb_calls = 1
    /\ Len(Val(hist.batch)) = 2
    /\ Cardinality(Misses) = 2
    /\ \E i \in DefTasks : i \notin Misses
    /\ NumDefs + 1 \in Misses

\* the documents the directory of this run calls for: one per definition
\* and one per module file
RunTasks == 1..hist.start.docs

\* the item of task i was found in the cache the run loaded
Hit(i) ==
    \E e \in LoadedCache : e.cid = ItemPath(i) \o "::" \o Sha256(tasks[i].text)

\* the item of task i was in the batch sent to the embedding service
Sent(i) ==
    /\ hist.batch # None
    /\ \E j \in 1..Len(Val(hist.batch)) :
          Val(hist.batch)[j] = [path |-> ItemPath(i), chunk |-> tasks[i].text]

\* the vector the path of task i accounts for
PathVector(i) ==
    IF Hit(i)
    THEN CacheGet(LoadedCache, ItemPath(i) \o "::" \o Sha256(tasks[i].text)).vector
    ELSE Embedding(tasks[i].text)

\* the records add_embeddings was called with
AddedRecords ==
    [j \in 1..Len(all_embeds) |->
        [path |-> all_embeds[j].path, chunk |-> all_embeds[j].chunk]]

\* C20 (complete insertion): once add_embeddings was called in a run, it
\* was called with exactly one item per parsed definition and one per
\* module file; each item came either from the cache with the cached
\* vector or from the batch with the new vector, never both, never neither;
\* the store holds these items after what it held before.
CompleteInsertion ==
    /\ ipc \in { "build_index", "build_bm25", "persist", "persist_meta", "returned" }
          => /\ Len(all_embeds) = Cardinality(RunTasks)
             /\ \A i \in RunTasks :
                   /\ Cardinality({ j \in 1..Len(all_embeds) :
                                       all_embeds[j].path = ItemPath(i) }) = 1
                   /\ \E j \in 1..Len(all_embeds) :
                         all_embeds[j] = [path |-> ItemPath(i),
                                          chunk |-> tasks[i].text,
                                          vector |-> PathVector(i)]
                   /\ Hit(i) # Sent(i)
    /\ ipc \in { "build_index", "build_bm25", "persist", "persist_meta" }
          => /\ metadata = hist.start.metadata \o AddedRecords
             /\ vectors = hist.start.vectors
                             \o [j \in 1..Len(all_embeds) |-> all_embeds[j].vector]

\* a run that returned after it took one item from the cache and sent
\* another to the embedding service
CompleteInsertionWitness ==
    /\ ipc = "returned"
    /\ \E i \in RunTasks : Hit(i) /\ ~ Sent(i)
    /\ \E i \in RunTasks : Sent(i) /\ ~ Hit(i)

(***************************************************************************)
(* More properties of HybridStore, checked under SpecStore                 *)
(***************************************************************************)
\* the positions (1-based) of the metadata records that were added to this
\* store object after its last build_index and its last build_bm25, in an
\* object that loaded nothing: there metadata[p] was added with vectors[p],
\* the index holds the vectors buffered at the last build_index and the
\* BM25 corpus the chunks held at the last build_bm25
Buffered ==
    IF Len(metadata) = Len(vectors) /\ index # None /\ bm25 # None
    THEN { p \in 1..Len(metadata) : p > Len(Val(index)) /\ p > Len(Val(bm25)) }
    ELSE {}

\* C21 (buffered items are not searchable): a chunk added after build_index
\* and build_bm25, and not held by the store before, is in the result of no
\* query made before the next rebuild, whatever top_k and alpha.
BufferedNotSearchable ==
    lastQuery.status = "ok" =>
        \A p \in Buffered :
            (\A q \in 1..(p - 1) : metadata[q] # metadata[p])
               => \A i \in 1..Len(lastQuery.results) : lastQuery.results[i] # metadata[p]

(***************************************************************************)
(* More properties of ChatCore.ingest, checked under SpecIngest            *)
(***************************************************************************)
\* a cache file that holds a dict
IsCache(f) == f # None /\ f # Corrupt

\* a dict has one entry per key
OneEntryPerKey(c) == \A e1, e2 \in c : e1.cid = e2.cid => e1 = e2

\* the entries the run found at its start are in the dict it works on and,
\* unless the file was damaged since, in the file
MonotoneCacheState ==
    run > 0 /\ IsCache(hist.start.cache_file)
       => /\ Val(hist.start.cache_file) \subseteq cache
          /\ OneEntryPerKey(cache)
          /\ cache_file = Corrupt \/ Val(hist.start.cache_file) \subseteq Val(cache_file)

\* a step of ingest that writes the cache file writes every entry the file
\* held, as it was, and one entry per key
MonotoneCacheStep ==
    cache_file' # cache_file /\ cache_file' # Corrupt
       => /\ cache_file # Corrupt
          /\ OneEntryPerKey(Val(cache_file'))
          /\ cache_file # None => Val(cache_file) \subseteq Val(cache_file')

\* C22 (monotone cache): over any sequence of ingest runs the keys of the
\* persisted embed cache never get fewer, and an entry present at the start
\* of a run keeps its text and its vector during the run.
MonotoneCache == []MonotoneCacheState /\ [][MonotoneCacheStep]_vars

\* the second run regenerated the text of a definition: the file holds the
\* entry of the older text as the run found it, and a new entry beside it
MonotoneCacheWitness ==
    /\ run = 2
    /\ IsCache(hist.start.cache_file)
    /\ IsCache(cache_file)
    /\ \E i \in DefTasks :
          LET old == chunk_id([path |-> ItemPath(i), chunk |-> "doc v1"])
              new == chunk_id([path |-> ItemPath(i), chunk |-> "doc v2"])
          IN /\ \E e \in Val(hist.start.cache_file) : e.cid = old
             /\ \A e \in Val(hist.start.cache_file) : e.cid # new
             /\ \E e \in Val(cache_file) : e.cid = old
             /\ \E e \in Val(cache_file) : e.cid = new

\* the record of task i that goes to the store, told from the generated
\* text and the cache the run loaded alone
RecordOfTask(i) ==
    [path |-> ItemPath(i), chunk |-> tasks[i].text, vector |-> PathVector(i)]

\* the cache entry written for task i
EntryOfTask(i) ==
    [cid |-> ItemPath(i) \o "::" \o Sha256(tasks[i].text),
     vector |-> Embedding(tasks[i].text), chunk |-> tasks[i].text]

\* save_embed_cache was called in this run
CacheSaved ==
    \E j \in 1..Len(hist.events) : hist.events[j] = "save_embed_cache"

\* C23 (insertion-order independence): whatever the order in which the
\* generation tasks of a run complete and are collected, the set of records
\* handed to the store and the set of cache entries written are told by the
\* generated texts and the loaded cache alone, and every record holds the
\* vector computed from its own chunk.
InsertionOrderIndependence ==
    /\ PastEmbedding
          => /\ { all_embeds[j] : j \in 1..Len(all_embeds) }
                   = { RecordOfTask(i) : i \in RunTasks }
             /\ \A j \in 1..Len(all_embeds) :
                   all_embeds[j].vector = Embedding(all_embeds[j].chunk)
    /\ PastEmbedding /\ CacheSaved /\ cache_file # Corrupt
          => Val(cache_file) = LoadedCache \cup { EntryOfTask(i) : i \in Misses }

\* the document of the second module was collected before that of the
\* first, both were embedded with different texts, and the run returned
InsertionOrderIndependenceWitness ==
    /\ ipc = "returned"
    /\ \E j \in 1..(Len(new_items) - 1) :
          /\ new_items[j].path = ItemPath(NumDefs + 2)
          /\ new_items[j + 1].path = ItemPath(NumDefs + 1)
          /\ new_items[j].chunk # new_items[j + 1].chunk

\* the number of entries of a list that are the document doc
Occurrences(docs, doc) == Cardinality({ i \in 1..Len(docs) : docs[i] = doc })

\* C24 (agreement of both signals): on a built store, with top_k >= 1 and
\* 0 <= alpha <= 1, a chunk that is first in the vector ranking and first in
\* the lexical ranking is in the result of the query exactly once.
AgreementOfBothSignals ==
    lastQuery.status = "ok"
       /\ lastQuery.faiss_hits # <<>> /\ lastQuery.bm25_hits # <<>>
       /\ lastQuery.faiss_hits[1] = lastQuery.bm25_hits[1]
       => Occurrences(lastQuery.results, lastQuery.faiss_hits[1]) = 1

\* chunk "a" is first in both rankings of a store of two chunks; with
\* top_k = 2 and alpha = 1/2 both rankings hand it over, and the result
\* holds it once
AgreementOfBothSignalsWitness ==
    /\ lastQuery.status = "ok"
    /\ lastQuery.top_k = 2
    /\ lastQuery.alpha = <<1, 2>>
    /\ Len(metadata) = 2
    /\ metadata[1] # metadata[2]
    /\ lastQuery.faiss_hits[1] = [path |-> "a", chunk |-> "foo bar"]
    /\ lastQuery.bm25_hits[1] = [path |-> "a", chunk |-> "foo bar"]
    /\ Occurrences(lastQuery.merged, lastQuery.faiss_hits[1]) = 2
    /\ Occurrences(lastQuery.results, lastQuery.faiss_hits[1]) = 1

\* ingest was left by the ValueError of build_index: the directory called
\* for no document, only add_embeddings was called on the store, the store
\* files are those the run found and the buffer is still empty
EmptyBuildState ==
    ipc = "raised" /\ ierr = "build_index"
       => /\ hist.start.docs = 0
          /\ hist.start.vectors = <<>>
          /\ hist.events = << "add_embeddings" >>
          /\ index_file = hist.start.index_file
          /\ meta_file = hist.start.meta_file
          /\ vectors = <<>>
          /\ metadata = hist.start.metadata

\* build_index on an empty buffer raises and changes nothing; a run without
\* documents on a store with an empty buffer gets to build_index and no
\* further
EmptyBuildStep ==
    /\ ipc = "build_index" /\ vectors = <<>>
          => /\ ipc' = "raised"
             /\ ierr' = "build_index"
             /\ UNCHANGED storeVars
    /\ ipc = "add" /\ hist.start.docs = 0 /\ vectors = <<>>
          => ipc' = "build_index" /\ vectors' = <<>> /\ UNCHANGED <<index_file, meta_file>>

\* C25 (build_index on an empty buffer is an error): build_index called on
\* a store object to which no vector was added raises ValueError and leaves
\* index, metadata and buffer as they were; an ingest run that yields no
\* item on such a store fails there, before the store writes a file.
EmptyBuildIsError == []EmptyBuildState /\ [][EmptyBuildStep]_vars

\* the first run, over a directory without definitions, ended in build_index
EmptyBuildIsErrorWitness ==
    /\ run = 1
    /\ ipc = "raised"
    /\ ierr = "build_index"
    /\ index = None
    /\ index_file = None
    /\ meta_file = None

\* C26 (valid vector hits only): every chunk a query takes from the vector
\* ranking is the metadata record of a position the index holds
\* (0 <= position < number of indexed vectors), no position is taken twice,
\* and the label -1 the index answers for a missing neighbour is never made
\* into a chunk.
ValidVectorHitsOnly ==
    lastQuery.status = "ok" =>
        LET fl == (lastQuery.top_k * lastQuery.alpha[1]) \div lastQuery.alpha[2]
            nv == Min(fl, Len(lastQuery.I))
        IN \A j \in 1..nv :
              /\ lastQuery.I[j] >= 0
              /\ lastQuery.I[j] < Len(Val(index))
              /\ lastQuery.merged[j] = metadata[lastQuery.I[j] + 1]
              /\ \A k \in 1..nv : k # j => lastQuery.I[k] # lastQuery.I[j]

\* the store object is as its last persist wrote it to the two files
AsPersisted ==
    /\ index # None
    /\ bm25 # None
    /\ index_file = index
    /\ meta_file = Some([metadata |-> metadata, bm25 |-> bm25])

\* every outcome of every query of the model, by its arguments
AllQueryOutcomes ==
    [a \in QVectors \X QTokens \X TopKs \X Alphas |->
        QueryOutcomes(a[1], a[2], a[3], a[4])]

\* HybridStore(dim, index_path, meta_path) is constructed (a step that is
\* not a query)
Constructed == HybridStore_init /\ UNCHANGED lastQuery

QueryStep == lastQuery' # lastQuery

\* C28 (query is read-only): a call of query, whether it returns a list or
\* raises, leaves the vector buffer, the metadata list, the index, the BM25
\* model and the two files as they were, so that the next query meets the
\* store the last one met and is answered as before.
QueryIsReadOnly ==
    [][QueryStep
          => UNCHANGED <<vectors, metadata, index, bm25, index_file, meta_file>>]_vars

\* a query answered by a store that holds a written pair of files and a
\* chunk added since its last rebuild
QueryIsReadOnlyWitness ==
    /\ lastQuery.status = "ok"
    /\ index_file # None
    /\ meta_file # None
    /\ Len(vectors) > Len(Val(index))
    /\ Len(metadata) > Len(Val(bm25))

(***************************************************************************)
(* Termination.  SpecLive puts the two views of a generation task side by  *)
(* side: a behaviour follows either the worker threads inside generate_doc *)
(* (as SpecGen) or ingest with its pools (as SpecIngest).  The scheduler   *)
(* runs a thread that can run, the clock goes on, every external call is   *)
(* answered, and ingest, once called, keeps taking its steps: weak         *)
(* fairness of the steps of the threads and the clock, and of the steps of *)
(* a run in progress.  Nothing makes a caller start a run.                 *)
(***************************************************************************)
InRun == ipc \notin { "idle", "returned", "raised" }

GenView == run = 0 /\ ipc = "idle" /\ NextGen

IngestView == ~started /\ now = 0 /\ NextIngest

RunStep == InRun /\ IngestView

NextLive == GenView \/ IngestView

SpecLive ==
    InitGen /\ [][NextLive]_vars /\ WF_vars(GenView) /\ WF_vars(RunStep)

AllThreadsDone == \A t \in Threads : thr[t].pc \in { "returned", "raised" }

\* C29 (termination of generation): with external calls that are answered
\* and a clock that goes on, no generate_doc call makes more than
\* MAX_RETRIES attempts, every call that was submitted ends with a result
\* or an error, every task of a pool of ingest gets done, and a run of
\* ingest returns or raises.  Each "comes to an end" is stated as "from
\* every state on, a state is reached where it is not going on" ([]<>),
\* which says of a thing in progress that it leads to its end.
TerminationOfGeneration ==
    /\ [](\A t \in Threads : thr[t].attempt <= MAX_RETRIES)
    /\ []<>(started => AllThreadsDone)
    /\ []<>(\A i \in 1..NumTasks : tasks[i].st # "pending")
    /\ []<>(~InRun)

\* every call is done: one gave up after MAX_RETRIES attempts, the last of
\* them made when the clock read MaxTime, another was answered
TerminationOfGenerationWitness ==
    /\ AllThreadsDone
    /\ \E t \in Threads :
          /\ thr[t].pc = "raised"
          /\ thr[t].attempt = MAX_RETRIES
          /\ thr[t].last = MaxTime
    /\ \E t \in Threads : thr[t].pc = "returned"

(***************************************************************************)
(* SpecClone: clients post to /api/clone, the Celery worker takes the jobs *)
(* in the order they were queued, and a producer with access to the broker *)
(* sends the task a URL of its own                                         *)
(***************************************************************************)
InitClone ==
    /\ InitSizeVars
    /\ InitCloneVars
    /\ InitGenVars
    /\ InitIngVars
    /\ vectors = <<>>
    /\ metadata = <<>>
    /\ bm25 = None
    /\ index = None
    /\ index_file = None
    /\ meta_file = None
    /\ lastQuery = NoQuery

ClonePost == \E url \in Bodies : enqueue_clone(url)

CloneWorker ==
    /\ jobs # <<>>
    /\ clone_and_ingest(Head(jobs))
    /\ jobs' = Tail(jobs)
    /\ UNCHANGED response

CloneSend ==
    /\ \E url \in URLs : clone_and_ingest(url)
    /\ UNCHANGED <<jobs, response>>

NextClone ==
    \/ ClonePost /\ UNCHANGED <<storeVars, lastQuery, genVars, ingVars, sizeVars>>
    \/ CloneWorker /\ UNCHANGED <<storeVars, lastQuery, genVars, ingVars, sizeVars>>
    \/ CloneSend /\ UNCHANGED <<storeVars, lastQuery, genVars, ingVars, sizeVars>>

SpecClone == InitClone /\ [][NextClone]_vars

\* the host of the URL is github.com or a subdomain of github.com
GithubHost(url) ==
    \E k \in 1..Len(ALLOWED_DOMAINS) :
        \/ hostname(url) = ALLOWED_DOMAINS[k]
        \/ endswith(hostname(url), <<".">> \o ALLOWED_DOMAINS[k])

\* C30 (allowed clone hosts): is_allowed_repo accepts a URL only when its
\* host is github.com or a subdomain of it; a request for any other host is
\* answered 400 and queues no job, and a run of clone_and_ingest on such a
\* URL raises ValueError before Repo.clone_from is called.
AllowedCloneHosts ==
    /\ response # None /\ ~GithubHost(Val(response).url)
          => Val(response).code = 400
    /\ \A i \in 1..Len(jobs) : GithubHost(jobs[i])
    /\ task # None /\ ~GithubHost(Val(task).url)
          => Val(task).raised = "ValueError" /\ ~Val(task).clone_from

====
